---- MODULE Spec2Model ----
(***************************************************************************)
(* Complaint lifecycle of the PCMC WhatsApp bot: draft complaints, their   *)
(* confirmation by a shared location, ticket issuance, cancellation and    *)
(* follow-up joins, as implemented in src/firebaseService.js and the       *)
(* webhook controller (src/unnamed/part_002).                              *)
(*                                                                         *)
(* The Firestore collections 'complaints' and 'tickets' are the shared     *)
(* state.  Every await on a Firestore read or write is one atomic step;    *)
(* several webhook requests may be in flight at once (Node serves each     *)
(* request as its own chain of promises), so the steps of different        *)
(* handlers interleave.  Writes to the 'citizens' collection and its chat   *)
(* sub-collections (saveChatMessage, updateCitizenComplaintCount) touch     *)
(* documents that no operation of the lifecycle reads; they are not part    *)
(* of the state below.                                                      *)
(*                                                                         *)
(* Further specifications over the same variables: SimSpec (the similarity *)
(* engine of src/aiService.js), DupSpec and DupFairSpec (the duplicate     *)
(* check of one report in handleComplaintFlow), CheckSpec                  *)
(* (checkDuplicateComplaint called with a location), EthicalSpec and       *)
(* RaceSpec (the citizen's ethicalScore, updated by one request at a time  *)
(* and by concurrent requests), RateSpec (the rate limiter), TextSpec      *)
(* (handleTextMessage and botMode) and DraftSpec (classification and first *)
(* document of a draft complaint).  Each of them leaves the other parts at *)
(* rest.                                                                   *)
(***************************************************************************)
EXTENDS Integers, Sequences, FiniteSets, TLC

\* ---------------------------------------------------------------- bounds
MaxComplaints == 2      \* complaints ever created
NumHandlers   == 2      \* webhook requests in flight at once
MaxClock      == 1      \* milliseconds the clock may advance

Reporters == {"r1", "r2"}
Handlers  == 1..NumHandlers

\* ------------------------------------------------------------ the clock
\* Date.now() is NowHigh * 36^4 + clock milliseconds.  NowHigh is the number
\* of whole 36^4 ms blocks since the epoch at the date stamped in the
\* controller's header (2025-06-07 22:04:46 UTC = 1749333886000 ms).
NowHigh == 1041508

RECURSIVE Base36Len(_)
\* Number.prototype.toString(36).length
Base36Len(n) == IF n < 36 THEN 1 ELSE 1 + Base36Len(n \div 36)

\* Date.now().toString(36).length: the digits of the high part plus the four
\* base-36 digits below it.
TimestampLen == Base36Len(NowHigh) + 4

Charset == {"0", "Z"}   \* two of the 36 characters generateRandomString draws from

\* generateRandomString(length, charset): the loop runs for i < length, so a
\* length of zero or less yields the empty string.
generateRandomString(length) ==
    IF length <= 0 THEN {<< >>} ELSE [1..length -> Charset]

\* generateTicketId(length): base-36 timestamp followed by
\* (length - timestamp.length) random characters.  The identifier is the
\* sequence <<timestamp>> \o randomPart.
generateTicketId(length, now) ==
    { <<now>> \o r : r \in generateRandomString(length - TimestampLen) }

NoTicket == << >>       \* ticketId: null

\* ----------------------------------------------------------------- state
VARIABLES
    complaints,   \* 'complaints' collection: sequence indexed by complaint id
    tickets,      \* 'tickets' collection: function ticketId -> ticket record
    clock,        \* server / process clock, in ms
    pc,           \* handler -> position in its request
    req,          \* handler -> locals of its request
    sim,          \* one run of the similarity engine (checkComplaintSimilarity)
    flow,         \* one report going through handleComplaintFlow
    citizen,      \* a 'citizens' document and the score updates in flight
    draft,        \* one run of createDraftComplaint with its classification
    rate,         \* rateLimitStore, Date.now() and the message being admitted
    textMessage   \* one text message going through handleTextMessage

lifecycleVars == <<complaints, tickets, clock, pc, req>>
otherVars == <<sim, flow, citizen, draft, rate, textMessage>>
vars ==
    <<complaints, tickets, clock, pc, req, sim, flow, citizen, draft, rate, textMessage>>

ComplaintIds == 1..Len(complaints)

NoReq == [phone |-> "none", id |-> 0, ticketId |-> NoTicket, ref |-> NoTicket]

\* A location is a point on a street (metres from its start) with an address
\* as a set of words; null is the absent location.
NoLocation == [present |-> FALSE, pos |-> 0, address |-> {}]

\* No report is in handleComplaintFlow; pool is what the candidate query of
\* checkDuplicateComplaint would return.  departments and scanned are the
\* log of the loop: what the department filter and the similarity analysis
\* said of each document (the logger.debug lines of the loop).
NoFlow ==
    [stage |-> "idle", phone |-> "none", location |-> NoLocation,
     imageUrl |-> FALSE, pool |-> << >>,
     i |-> 0, departments |-> {}, scanned |-> {},
     best |-> [id |-> 0, score |-> 0, isDuplicate |-> FALSE, semantic |-> 0,
               location |-> 0, withinProximity |-> FALSE, image |-> 0,
               temporal |-> 0, type |-> 0],
     failed |-> FALSE, verdict |-> "none", joined |-> FALSE,
     draftCreated |-> FALSE]

\* The update of another request that wrote the score while a request was
\* between its read and its write: none yet.
NoOther == [message |-> 0, readMessages |-> 0]

\* No updateCitizenEthicalScore call of a request is under way.  crossed
\* counts the score writes of other requests since the call read the
\* document: 0, 1 (other then holds that write's message score and message
\* count, and that write was itself computed from the score then stored) or
\* 2 for anything else.
NoUpdate ==
    [stage |-> "idle", message |-> 0, currentScore |-> 0, readMessages |-> 0,
     crossed |-> 0, other |-> NoOther]

\* newCitizenData of a citizen's profile: botMode true, ethicalScore 7.5 (in
\* tenths), no message counted; no score update in flight.
NoCitizen ==
    [ethicalScore |-> 75, totalMessages |-> 0, botMode |-> TRUE,
     updates |-> [h \in Handlers |-> NoUpdate]]

\* rateLimitStore is empty, Date.now() is 0 and no message is at the gate.
NoRate ==
    [store |-> [r \in Reporters |->
                  [has |-> FALSE, count |-> 0, resetTime |-> 0]],
     now |-> 0, arrivals |-> 0, stage |-> "idle", phone |-> "none",
     accepted |-> [r \in Reporters |-> 0]]

\* No text message is in handleTextMessage.
NoText ==
    [stage |-> "idle", phone |-> "none", botMode |-> TRUE, intent |-> "none",
     saved |-> FALSE, scored |-> FALSE, routed |-> "none"]
\* createDraftComplaint has not been called.
NoDraft ==
    [stage |-> "idle", phone |-> "none", department |-> "", priority |-> "",
     estimate |-> 0,
     deptResult |-> [rejected |-> TRUE, reply |-> [ok |-> FALSE, text |-> ""]],
     priorityResult |-> [rejected |-> TRUE, reply |-> [ok |-> FALSE, text |-> ""]],
     categoryResult |-> [rejected |-> TRUE, reply |-> [ok |-> FALSE, text |-> ""]],
     doc |-> [status |-> "none"]]

\* No similarity analysis has run.  missing names the analyzers of the run
\* whose input was missing or whose classifier call failed.
NoSim ==
    [stage |-> "idle", semantic |-> 0, location |-> 0, withinProximity |-> FALSE,
     image |-> 0, temporal |-> 0, type |-> 0, score |-> 0,
     isDuplicate |-> FALSE, before |-> FALSE, missing |-> {}]

InitLifecycle ==
    /\ complaints = << >>
    /\ tickets = << >>
    /\ clock = 0
    /\ pc = [h \in Handlers |-> "idle"]
    /\ req = [h \in Handlers |-> NoReq]

Init ==
    /\ InitLifecycle
    /\ sim = NoSim
    /\ flow = NoFlow
    /\ citizen = NoCitizen
    /\ draft = NoDraft
    /\ rate = NoRate
    /\ textMessage = NoText

\* ----------------------------------------------------------- helpers
\* Firestore set(): create or replace the whole document.
SetDoc(coll, key, doc) ==
    [k \in (DOMAIN coll) \cup {key} |-> IF k = key THEN doc ELSE coll[k]]

Finish(h) ==
    /\ pc' = [pc EXCEPT ![h] = "idle"]
    /\ req' = [req EXCEPT ![h] = NoReq]

\* The clock advances between any two steps.
Tick ==
    /\ clock < MaxClock
    /\ clock' = clock + 1
    /\ UNCHANGED <<complaints, tickets, pc, req, otherVars>>

\* ------------------------------------------------- createDraftComplaint
\* The document written by createDraftComplaint.  It carries no
\* followUpUsers field; the absent array is the empty set.
draftComplaint(phone, now) ==
    [createdBy |-> phone,
     status |-> "draft",
     createdAt |-> now,
     location |-> "null",
     requiresLocationSharing |-> TRUE,
     ticketId |-> NoTicket,
     completionPercentage |-> 30,
     cancelledAt |-> -1,
     followUpUsers |-> {}]

\* handleComplaintFlow, no duplicate found: createDraftComplaint writes a new
\* draft under a fresh complaint id.
createDraftComplaint(phone) ==
    /\ Len(complaints) < MaxComplaints
    /\ complaints' = Append(complaints, draftComplaint(phone, clock))
    /\ UNCHANGED <<tickets, clock, pc, req, otherVars>>

\* ------------------------------------------- getPendingComplaintForUser
\* getPendingComplaintForUser with the createdBy filter left out: the newest
\* location-pending draft of any reporter.
getPendingComplaintForUser_AnyReporter(phone) ==
    LET match == { c \in ComplaintIds :
                     /\ complaints[c].status = "draft"
                     /\ complaints[c].requiresLocationSharing }
    IN  IF match = {} THEN {0}
        ELSE { c \in match :
                 \A d \in match : complaints[d].createdAt <= complaints[c].createdAt }

\* getPendingComplaintForUser with orderBy createdAt ascending: the oldest
\* location-pending draft of the reporter.
getPendingComplaintForUser_Oldest(phone) ==
    LET match == { c \in ComplaintIds :
                     /\ complaints[c].createdBy = phone
                     /\ complaints[c].status = "draft"
                     /\ complaints[c].requiresLocationSharing }
    IN  IF match = {} THEN {0}
        ELSE { c \in match :
                 \A d \in match : complaints[c].createdAt <= complaints[d].createdAt }

\* where createdBy == phone, status == 'draft', requiresLocationSharing ==
\* true; orderBy createdAt desc; limit 1.  The result is a complaint id, or 0
\* for null.  Equal createdAt values leave the choice to the store.
getPendingComplaintForUser(phone) ==
    LET match == { c \in ComplaintIds :
                     /\ complaints[c].createdBy = phone
                     /\ complaints[c].status = "draft"
                     /\ complaints[c].requiresLocationSharing }
    IN  IF match = {} THEN {0}
        ELSE { c \in match :
                 \A d \in match : complaints[d].createdAt <= complaints[c].createdAt }

\* ------------------------------------------------ handleLocationMessage
\* A location message from phone: look up the pending draft; confirm it, or
\* go on to acknowledge the bare location.  A failed query is caught inside
\* getPendingComplaintForUser and reads as null.
handleLocationMessage(h, phone) ==
    /\ pc[h] = "idle"
    /\ \E p \in getPendingComplaintForUser(phone) \cup {0} :
         /\ pc' = [pc EXCEPT ![h] = IF p = 0 THEN "acknowledge" ELSE "confirm"]
         /\ req' = [req EXCEPT ![h] = [NoReq EXCEPT !.phone = phone, !.id = p]]
    /\ UNCHANGED <<complaints, tickets, clock, otherVars>>

\* else-branch of handleLocationMessage: sendText of the acknowledgment.
acknowledgeLocation(h) ==
    /\ pc[h] = "acknowledge"
    /\ Finish(h)
    /\ UNCHANGED <<complaints, tickets, clock, otherVars>>

\* ------------------------------------------------------ confirmComplaint
\* updateData of confirmComplaint without requiresLocationSharing: false.
confirmUpdateData_FlagKept(doc, ticketId) ==
    [doc EXCEPT !.status = "active",
                !.ticketId = ticketId,
                !.location = "set",
                !.completionPercentage = 60]

\* updateData of confirmComplaint applied to a complaint document.
confirmUpdateData(doc, ticketId) ==
    [doc EXCEPT !.status = "active",
                !.ticketId = ticketId,
                !.location = "set",
                !.requiresLocationSharing = FALSE,
                !.completionPercentage = 60]

\* confirmComplaint up to its first write: complaintRef.get(), the existence
\* check, generateTicketId(8) and complaintRef.update(updateData).  The read
\* is used for the document's existence and for fields no operation changes
\* (createdBy, department, ...), so it is taken together with the write.  A
\* missing document or a failed write throws and the handler's catch ends
\* the request.
confirmComplaint(h) ==
    /\ pc[h] = "confirm"
    /\ \/ /\ req[h].id \in ComplaintIds
          /\ \E t \in generateTicketId(8, clock) :
               /\ complaints' = [complaints EXCEPT
                                   ![req[h].id] = confirmUpdateData(@, t)]
               /\ req' = [req EXCEPT ![h].ticketId = t]
          /\ pc' = [pc EXCEPT ![h] = "create_ticket"]
       \/ /\ Finish(h)
          /\ UNCHANGED complaints
    /\ UNCHANGED <<tickets, clock, otherVars>>

\* ticketData of createTicketRecord.
ticketData(complaintId, complaintData) ==
    [complaintId |-> complaintId,
     createdBy |-> complaintData.createdBy,
     status |-> "open",
     completionPercentage |-> 70,
     followUpUsers |-> {complaintData.createdBy}]

\* createTicketRecord: ticketRef.set(ticketData), after which
\* confirmComplaint returns the ticket id; a failed write is rethrown and
\* leaves confirmComplaint through its catch.
createTicketRecord(h) ==
    /\ pc[h] = "create_ticket"
    /\ \/ tickets' = SetDoc(tickets, req[h].ticketId,
                            ticketData(req[h].id, complaints[req[h].id]))
       \/ UNCHANGED tickets
    /\ Finish(h)
    /\ UNCHANGED <<complaints, clock, otherVars>>

\* ------------------------------------------------------- cancelComplaint
\* updateData of cancelComplaint applied to a complaint document.
cancelUpdateData(doc, now) ==
    [doc EXCEPT !.status = "cancelled",
                !.cancelledAt = now,
                !.completionPercentage = 0]

\* handleComplaintCancellation: the reply of the cancel button that
\* sendComplaintConfirmation attached to complaint c.  cancelComplaint is one
\* update of the document, whatever its status.
cancelComplaint(c) ==
    /\ c \in ComplaintIds
    /\ complaints' = [complaints EXCEPT ![c] = cancelUpdateData(@, clock)]
    /\ UNCHANGED <<tickets, clock, pc, req, otherVars>>

\* ------------------------------------------ addUserToComplaintFollowUp
\* Candidate pool of checkDuplicateComplaint: status in the open set, not
\* authored by the reporter.  Complaints only ever hold draft, active or
\* cancelled, so the pool is the active ones.
DuplicateCandidates(phone) ==
    { c \in ComplaintIds :
        /\ complaints[c].status \in {"active", "in_progress", "open"}
        /\ complaints[c].createdBy # phone }

\* handleComplaintFlow with a duplicate verdict for candidate c: the verdict
\* comes from the classification service and is any candidate of the pool.
duplicateDetected(h, phone, c) ==
    /\ pc[h] = "idle"
    /\ c \in DuplicateCandidates(phone)
    /\ pc' = [pc EXCEPT ![h] = "followup_complaint"]
    /\ req' = [req EXCEPT ![h] = [NoReq EXCEPT !.phone = phone, !.id = c]]
    /\ UNCHANGED <<complaints, tickets, clock, otherVars>>

\* followUpUsers with the phone number taken out when it is already there.
arrayUnion_Toggle(doc, phone) ==
    [doc EXCEPT !.followUpUsers = IF phone \in @ THEN @ \ {phone}
                                  ELSE @ \cup {phone}]

\* FieldValue.arrayUnion(phone) on followUpUsers.
arrayUnion(doc, phone) ==
    [doc EXCEPT !.followUpUsers = @ \cup {phone}]

\* complaintRef.update({followUpUsers: arrayUnion}); a failure is caught and
\* ends addUserToComplaintFollowUp.
followUpComplaint(h) ==
    /\ pc[h] = "followup_complaint"
    /\ \/ /\ complaints' = [complaints EXCEPT ![req[h].id] = arrayUnion(@, req[h].phone)]
          /\ pc' = [pc EXCEPT ![h] = "followup_query"]
          /\ req' = req
       \/ /\ Finish(h)
          /\ UNCHANGED complaints
    /\ UNCHANGED <<tickets, clock, otherVars>>

\* tickets.where('complaintId', '==', complaintId).limit(1).get()
followUpQuery(h) ==
    /\ pc[h] = "followup_query"
    /\ LET found == { t \in DOMAIN tickets : tickets[t].complaintId = req[h].id }
       IN  IF found = {}
           THEN Finish(h)
           ELSE /\ \E t \in found : req' = [req EXCEPT ![h].ref = t]
                /\ pc' = [pc EXCEPT ![h] = "followup_ticket"]
    /\ UNCHANGED <<complaints, tickets, clock, otherVars>>

\* ticketDoc.ref.update({followUpUsers: arrayUnion})
followUpTicket(h) ==
    /\ pc[h] = "followup_ticket"
    /\ tickets' = [tickets EXCEPT ![req[h].ref] = arrayUnion(@, req[h].phone)]
    /\ Finish(h)
    /\ UNCHANGED <<complaints, clock, otherVars>>

\* ---------------------------------------------------------- specification
Next ==
    \/ Tick
    \/ \E r \in Reporters : createDraftComplaint(r)
    \/ \E h \in Handlers, r \in Reporters : handleLocationMessage(h, r)
    \/ \E h \in Handlers : acknowledgeLocation(h)
    \/ \E h \in Handlers : confirmComplaint(h)
    \/ \E h \in Handlers : createTicketRecord(h)
    \/ \E c \in ComplaintIds : cancelComplaint(c)
    \/ \E h \in Handlers, r \in Reporters, c \in ComplaintIds : duplicateDetected(h, r, c)
    \/ \E h \in Handlers : followUpComplaint(h)
    \/ \E h \in Handlers : followUpQuery(h)
    \/ \E h \in Handlers : followUpTicket(h)

Spec == Init /\ [][Next]_vars

\* ====================================================== similarity engine
\* src/aiService.js.  Scores are kept in hundredths (95 for 0.95) and the
\* weighted aggregate in ten-thousandths (8500 for 0.85); the arithmetic is
\* exact, where the code adds doubles.

\* weights of checkComplaintSimilarity
weights ==
    [semantic |-> 35, location |-> 30, image |-> 20, temporal |-> 10, type |-> 5]

\* Scores a classifier reply may carry in its JSON "score" field: the model is
\* asked for 0.0-1.0 and is free to answer anything.
ClassifierScores == {-20, 60, 80, 85, 100, 150}

\* A classifier call either fails (request error, unparsable reply) or
\* delivers a score.
Replies ==
    {[ok |-> FALSE, score |-> 0]}
        \cup {[ok |-> TRUE, score |-> s] : s \in ClassifierScores}

\* analyzeSemanticSimilarity: score: analysis.score || 0; the catch returns
\* score 0.
analyzeSemanticSimilarity(reply) ==
    [score |-> IF reply.ok THEN reply.score ELSE 0]

Positions == {0, 30, 100, 200, 500, 1000, 1500}

Addresses == {{}, {"mg"}, {"mg", "road"}}

Locations ==
    {NoLocation}
        \cup {[present |-> TRUE, pos |-> p, address |-> a] :
                 p \in Positions, a \in Addresses}

\* The reporter stands at the start of the street.
ReportLocations == { l \in Locations : l.pos = 0 }

\* calculateDistance, in metres.
calculateDistance(l1, l2) ==
    IF l1.pos >= l2.pos THEN l1.pos - l2.pos ELSE l2.pos - l1.pos

\* calculateAddressSimilarity, in hundredths: 0 for an empty address, 1 for
\* equal ones, else shared words over all words.
calculateAddressSimilarity(address1, address2) ==
    IF address1 = {} \/ address2 = {} THEN 0
    ELSE IF address1 = address2 THEN 100
    ELSE (100 * Cardinality(address1 \cap address2))
             \div Cardinality(address1 \cup address2)

\* analyzeLocationProximity: distance tiers, then the address boost.
analyzeLocationProximity(newLocation, existingLocation) ==
    IF ~ newLocation.present \/ ~ existingLocation.present
    THEN [score |-> 0, withinProximity |-> FALSE]
    ELSE LET distance == calculateDistance(newLocation, existingLocation)
             addressSimilarity ==
                 calculateAddressSimilarity(newLocation.address,
                                            existingLocation.address)
             score == IF distance <= 50 THEN 95
                      ELSE IF distance <= 100 THEN 85
                      ELSE IF distance <= 200 THEN 70
                      ELSE IF distance <= 500 THEN 40
                      ELSE IF distance <= 1000 THEN 20
                      ELSE 0
         IN  [score |-> IF addressSimilarity > 80
                        THEN (IF score + 20 > 100 THEN 100 ELSE score + 20)
                        ELSE score,
              withinProximity |-> distance <= 200]

\* analyzeImageSimilarity: 0 when an image is missing, else the reply's score
\* (analysis.score || 0), 0 in the catch.
analyzeImageSimilarity(newImageUrl, existingImageUrl, reply) ==
    [score |-> IF ~ newImageUrl \/ ~ existingImageUrl THEN 0
               ELSE IF reply.ok THEN reply.score ELSE 0]

\* The createdAt of a value that has no such property: undefined.
Undefined == -1

\* analyzeTemporalRelevance(existingComplaintDate) at time now, both in hours.
\* new Date(undefined) is an invalid date, hoursDiff is NaN, every comparison
\* with NaN is false and the last else applies.
analyzeTemporalRelevance(existingComplaintDate, now) ==
    IF existingComplaintDate = Undefined THEN [score |-> 10]
    ELSE LET hoursDiff == now - existingComplaintDate
         IN  [score |-> IF hoursDiff <= 24 THEN 100
                        ELSE IF hoursDiff <= 72 THEN 80
                        ELSE IF hoursDiff <= 168 THEN 60
                        ELSE IF hoursDiff <= 720 THEN 30
                        ELSE 10]

\* analyzeComplaintType: score: analysis.score || 0; the catch returns 0.
analyzeComplaintType(reply) ==
    [score |-> IF reply.ok THEN reply.score ELSE 0]

\* finalScore of checkComplaintSimilarity.
finalScore(semantic, location, image, temporal, type) ==
    semantic.score * weights.semantic
        + location.score * weights.location
        + image.score * weights.image
        + temporal.score * weights.temporal
        + type.score * weights.type

\* decideDuplicateStatus with the location comparison of its third rule
\* turned round.
decideDuplicateStatus_NearOnly(score, semantic, location, image) ==
    IF score >= 8500 THEN TRUE
    ELSE IF score >= 7500 /\ location.withinProximity THEN TRUE
    ELSE IF semantic.score >= 85 /\ location.score <= 70 THEN TRUE
    ELSE IF location.score >= 90 /\ semantic.score >= 60 THEN TRUE
    ELSE IF image.score >= 80 /\ location.score >= 60 THEN TRUE
    ELSE score >= 8000

\* decideDuplicateStatus with the image threshold of its fifth rule made
\* strict.
decideDuplicateStatus_StrictImage(score, semantic, location, image) ==
    IF score >= 8500 THEN TRUE
    ELSE IF score >= 7500 /\ location.withinProximity THEN TRUE
    ELSE IF semantic.score >= 85 /\ location.score >= 70 THEN TRUE
    ELSE IF location.score >= 90 /\ semantic.score >= 60 THEN TRUE
    ELSE IF image.score > 80 /\ location.score >= 60 THEN TRUE
    ELSE score >= 8000

\* decideDuplicateStatus(finalScore, { semantic, location, image }): the first
\* return that applies.
decideDuplicateStatus(score, semantic, location, image) ==
    IF score >= 8500 THEN TRUE
    ELSE IF score >= 7500 /\ location.withinProximity THEN TRUE
    ELSE IF semantic.score >= 85 /\ location.score >= 70 THEN TRUE
    ELSE IF location.score >= 90 /\ semantic.score >= 60 THEN TRUE
    ELSE IF image.score >= 80 /\ location.score >= 60 THEN TRUE
    ELSE score >= 8000

\* checkComplaintSimilarity(newComplaint, existingComplaint, newLocation,
\* existingLocation, newImageUrl, existingImageUrl).  The two texts reach the
\* result through the classifier's replies only.  existingComplaint is the
\* description string its caller passes, so existingComplaint.createdAt is
\* undefined.  Every analyzer catches its own errors, so the outer catch is
\* never entered.
checkComplaintSimilarity(newLocation, existingLocation, newImageUrl, existingImageUrl, replies, now) ==
    LET semanticAnalysis == analyzeSemanticSimilarity(replies.semantic)
        locationAnalysis == analyzeLocationProximity(newLocation, existingLocation)
        imageAnalysis    == analyzeImageSimilarity(newImageUrl, existingImageUrl,
                                                   replies.image)
        temporalAnalysis == analyzeTemporalRelevance(Undefined, now)
        typeAnalysis     == analyzeComplaintType(replies.type)
        score == finalScore(semanticAnalysis, locationAnalysis, imageAnalysis,
                            temporalAnalysis, typeAnalysis)
    IN  [score |-> score,
         isDuplicate |-> decideDuplicateStatus(score, semanticAnalysis,
                                               locationAnalysis, imageAnalysis),
         semantic |-> semanticAnalysis.score,
         location |-> locationAnalysis.score,
         withinProximity |-> locationAnalysis.withinProximity,
         image |-> imageAnalysis.score,
         temporal |-> temporalAnalysis.score,
         type |-> typeAnalysis.score]

ReplySets == [semantic : Replies, image : Replies, type : Replies]

\* The analyzers of one checkComplaintSimilarity call that went without
\* their input or whose classifier call failed: the early returns and the
\* catches of the five analyzers.  The date handed to analyzeTemporalRelevance
\* is the createdAt of the description string, which is always undefined.
missingInputs(newLocation, existingLocation, newImageUrl, existingImageUrl, replies) ==
    {"temporal"}
        \cup (IF replies.semantic.ok THEN {} ELSE {"semantic"})
        \cup (IF newLocation.present /\ existingLocation.present
              THEN {} ELSE {"location"})
        \cup (IF newImageUrl /\ existingImageUrl /\ replies.image.ok
              THEN {} ELSE {"image"})
        \cup (IF replies.type.ok THEN {} ELSE {"type"})

\* One call of checkComplaintSimilarity on drawn arguments and replies.
similarityRequest ==
    /\ sim.stage = "idle"
    /\ \E newLocation \in ReportLocations, existingLocation \in Locations,
          newImageUrl, existingImageUrl \in BOOLEAN, replies \in ReplySets :
         LET r == checkComplaintSimilarity(newLocation, existingLocation,
                                           newImageUrl, existingImageUrl,
                                           replies, 0)
         IN  sim' = [stage |-> "analysed",
                     semantic |-> r.semantic, location |-> r.location,
                     withinProximity |-> r.withinProximity, image |-> r.image,
                     temporal |-> r.temporal, type |-> r.type,
                     score |-> r.score, isDuplicate |-> r.isDuplicate,
                     before |-> FALSE,
                     missing |-> missingInputs(newLocation, existingLocation,
                                               newImageUrl, existingImageUrl,
                                               replies)]
    /\ UNCHANGED <<lifecycleVars, flow, citizen, draft, rate, textMessage>>

\* Values a sub-score is raised to.
ScoreGrid == {55, 60, 70, 80, 85, 90, 95, 100}

\* The decision taken again after one of the text, location and image scores
\* went up: the aggregate is recomputed from the weights, withinProximity
\* stays or turns true with the location score, the other sub-scores stay.
reassess(which, v, within) ==
    /\ sim.stage \in {"analysed", "reassessed"}
    /\ v > sim[which]
    /\ within = sim.withinProximity \/ (which = "location" /\ within)
    /\ LET raised == [sim EXCEPT ![which] = v, !.withinProximity = within]
           score == finalScore([score |-> raised.semantic],
                               [score |-> raised.location],
                               [score |-> raised.image],
                               [score |-> raised.temporal],
                               [score |-> raised.type])
       IN  sim' = [raised EXCEPT
                     !.stage = "reassessed",
                     !.score = score,
                     !.before = sim.isDuplicate,
                     !.isDuplicate =
                         decideDuplicateStatus(score,
                             [score |-> raised.semantic],
                             [score |-> raised.location,
                              withinProximity |-> raised.withinProximity],
                             [score |-> raised.image])]
    /\ UNCHANGED <<lifecycleVars, flow, citizen, draft, rate, textMessage>>

SimNext ==
    \/ similarityRequest
    \/ \E which \in {"semantic", "location", "image"}, v \in ScoreGrid,
          within \in BOOLEAN : reassess(which, v, within)

SimSpec == Init /\ [][SimNext]_vars

\* ================================================================ claims
TicketsOf(c) == { t \in DOMAIN tickets : tickets[t].complaintId = c }

Quiescent == \A h \in Handlers : pc[h] = "idle"

\* The reporter has no draft complaint that still awaits a location.
NoPendingDraft(phone) ==
    ~ \E c \in ComplaintIds :
        /\ complaints[c].createdBy = phone
        /\ complaints[c].status = "draft"
        /\ complaints[c].requiresLocationSharing

\* C1: a confirmComplaint call on a complaint that is already 'active' ends
\* in an error at once: it leaves the complaint's ticketId and the set of
\* ticket records as they were and never goes on to createTicketRecord.
C1_ConfirmActiveRejected ==
    [][\A h \in Handlers :
         ( /\ pc[h] = "confirm"
           /\ pc'[h] # "confirm"
           /\ req[h].id \in ComplaintIds
           /\ complaints[req[h].id].status = "active" )
         => /\ pc'[h] = "idle"
            /\ complaints'[req[h].id].ticketId = complaints[req[h].id].ticketId
            /\ tickets' = tickets]_vars

\* C2: cancelComplaint on a complaint that is already outside draft ('active'
\* or 'cancelled') changes nothing: status, cancelledAt and
\* workflow.completionPercentage stay as they were.
C2_CancelOutsideDraftRejected ==
    [][\A c \in ComplaintIds :
         (complaints[c].status \in {"active", "cancelled"} /\ cancelComplaint(c))
         => /\ complaints'[c].status = complaints[c].status
            /\ complaints'[c].cancelledAt = complaints[c].cancelledAt
            /\ complaints'[c].completionPercentage
                   = complaints[c].completionPercentage]_vars

\* C3: whenever no request is in flight, a ticket record exists for a
\* complaint if and only if the complaint has reached 'active' (it was given
\* a ticketId); a failed createTicketRecord leaves no active complaint
\* without its ticket record.
C3_TicketIffActive ==
    Quiescent =>
        \A c \in ComplaintIds :
            (TicketsOf(c) # {}) <=> (complaints[c].ticketId # NoTicket)

\* C4: 'active' and 'cancelled' are terminal: no step takes an active
\* complaint out of 'active' or confirms it again under another ticketId, and
\* no step makes a cancelled complaint active or gives it a ticketId or a
\* ticket record.
C4_TerminalStates ==
    [][\A c \in ComplaintIds :
         /\ complaints[c].status = "active"
              => /\ complaints'[c].status = "active"
                 /\ complaints'[c].ticketId = complaints[c].ticketId
         /\ complaints[c].status = "cancelled"
              => /\ complaints'[c].status = "cancelled"
                 /\ complaints'[c].ticketId = complaints[c].ticketId
                 /\ { t \in DOMAIN tickets' : tickets'[t].complaintId = c }
                        = TicketsOf(c)]_vars

\* C5: location submissions are serialized: no two requests are past the
\* confirmation write of the same complaint at once, and no complaint ever
\* has more than one ticket record.
C5_SingleConfirmation ==
    /\ \A g, h \in Handlers :
         (g # h /\ pc[g] = "create_ticket" /\ pc[h] = "create_ticket")
         => req[g].id # req[h].id
    /\ \A c \in ComplaintIds : Cardinality(TicketsOf(c)) <= 1

\* C6: no two distinct complaints carry the same ticketId.
C6_TicketIdUnique ==
    \A c, d \in ComplaintIds :
        (c # d /\ complaints[c].ticketId # NoTicket)
        => complaints[c].ticketId # complaints[d].ticketId

\* C7: followUpUsers of every ticket, and of every complaint that has a
\* followUpUsers array, contains the complaint's createdBy.
C7_FollowUpHasCreator ==
    /\ \A c \in ComplaintIds :
         complaints[c].followUpUsers # {}
         => complaints[c].createdBy \in complaints[c].followUpUsers
    /\ \A t \in DOMAIN tickets : tickets[t].createdBy \in tickets[t].followUpUsers

\* C8: a complaint's workflow.completionPercentage never decreases, except
\* for one drop to 0 when the complaint is first cancelled, and it never
\* rises again once the complaint has been cancelled.
C8_PercentageMonotone ==
    [][\A c \in ComplaintIds :
         LET old == complaints[c].completionPercentage
             new == complaints'[c].completionPercentage
         IN  /\ new < old => /\ new = 0
                             /\ complaints'[c].status = "cancelled"
                             /\ complaints[c].cancelledAt = -1
             /\ complaints[c].cancelledAt # -1 => new <= old]_vars

C10_StandaloneAcknowledgment ==
    [][\A h \in Handlers :
         /\ ( /\ pc[h] = "idle"
              /\ pc'[h] \in {"acknowledge", "confirm"}
              /\ NoPendingDraft(req'[h].phone) )
              => /\ pc'[h] = "acknowledge"
                 /\ UNCHANGED <<complaints, tickets>>
         /\ (pc[h] = "acknowledge" /\ pc'[h] # "acknowledge")
              => /\ pc'[h] = "idle"
                 /\ UNCHANGED <<complaints, tickets>>]_vars

\* A reporter whose only complaints are confirmed or cancelled is being
\* acknowledged.
C10_Witness ==
    \E h \in Handlers :
        /\ pc[h] = "acknowledge"
        /\ NoPendingDraft(req[h].phone)
        /\ \E c \in ComplaintIds : complaints[c].createdBy = req[h].phone

\* ============================================== duplicate check of a report
\* handleComplaintFlow (src/unnamed/part_002) and checkDuplicateComplaint
\* (src/firebaseService.js) for one report.  The answers of the store and of
\* the classifier are the environment's; every await is one step.

MaxPool == 2            \* documents the candidate query returns

validDepartments ==
    {"Water Supply", "Waste Management", "Roads & Infrastructure",
     "Health & Sanitation", "Building & Planning", "Electricity",
     "Parks & Recreation", "Traffic & Transport", "Property Tax",
     "General Administration"}

\* The departments of the complaints in the pool, and of the replies.
Departments == {"Water Supply", "General Administration"}

\* categorizeDepartment: the reply if it names a valid department, else
\* 'General Administration'; the catch returns 'General Administration'.
categorizeDepartment(reply) ==
    IF reply.ok /\ reply.text \in validDepartments
    THEN reply.text ELSE "General Administration"

DepartmentReplies ==
    {[ok |-> FALSE, text |-> ""]}
        \cup {[ok |-> TRUE, text |-> d] : d \in Departments \cup {"Water"}}

\* Complaints the candidate query may return: open complaints of the last
\* thirty days, here with a picture, created two hours before the report and
\* either without a location or thirty metres from the reporter.
Candidates ==
    [createdBy : Reporters,
     department : Departments,
     location : {NoLocation, [present |-> TRUE, pos |-> 30, address |-> {}]},
     imageUrl : {TRUE},
     createdAt : {-2}]

Pools == UNION { [1..n -> Candidates] : n \in 0..MaxPool }

\* Replies the similarity classifier gives in this flow.
FlowReplySets ==
    { rs \in ReplySets :
        \A k \in {"semantic", "image", "type"} :
            rs[k].ok => rs[k].score \in {100, 150} }

\* bestMatch = null, highestScore = 0
DupInit ==
    /\ InitLifecycle
    /\ sim = NoSim
    /\ citizen = NoCitizen
    /\ draft = NoDraft
    /\ rate = NoRate
    /\ textMessage = NoText
    /\ \E pool \in Pools : flow = [NoFlow EXCEPT !.pool = pool]

\* The loop of checkDuplicateComplaint from the document after position i:
\* documents of the reporter are skipped; after the last document the best
\* match decides between the follow-up join and the 'not duplicate' return.
LoopFrom(f, i) ==
    LET rest == { j \in (i + 1)..Len(f.pool) : f.pool[j].createdBy # f.phone }
    IN  IF rest # {}
        THEN [f EXCEPT !.stage = "department",
                       !.i = CHOOSE j \in rest : \A k \in rest : j <= k]
        ELSE IF f.best.id # 0 /\ f.best.isDuplicate
        THEN [f EXCEPT !.stage = "followup", !.i = 0]
        ELSE [f EXCEPT !.stage = "create_draft", !.i = 0, !.verdict = "unique"]

\* A complaint text (with or without a picture) enters handleComplaintFlow,
\* which calls checkDuplicateComplaint(messageText, phoneNumber, null, imageUrl).
handleComplaintFlow(phone, imageUrl) ==
    /\ flow.stage = "idle"
    /\ flow' = [flow EXCEPT !.stage = "query", !.phone = phone,
                            !.location = NoLocation, !.imageUrl = imageUrl]
    /\ UNCHANGED <<lifecycleVars, sim, citizen, draft, rate, textMessage>>

\* checkDuplicateComplaint(complaintText, phoneNumber, location, imageUrl)
\* called with all its parameters.
checkDuplicateComplaint(phone, location, imageUrl) ==
    /\ flow.stage = "idle"
    /\ flow' = [flow EXCEPT !.stage = "query", !.phone = phone,
                            !.location = location, !.imageUrl = imageUrl]
    /\ UNCHANGED <<lifecycleVars, sim, citizen, draft, rate, textMessage>>

\* await query.get(): an empty snapshot returns 'not duplicate'; a failed
\* query is caught by the outer catch, which returns the fallback.
queryRecentComplaints ==
    /\ flow.stage = "query"
    /\ \/ flow' = LoopFrom(flow, 0)
       \/ flow' = [flow EXCEPT !.stage = "create_draft", !.failed = TRUE,
                               !.verdict = "unique"]
    /\ UNCHANGED <<lifecycleVars, sim, citizen, draft, rate, textMessage>>

\* The distance test of the department filter with 2 km for 0.2 km.
farApart_Wide(loc1, loc2) ==
    IF ~ loc1.present \/ ~ loc2.present THEN TRUE
    ELSE calculateDistance(loc1, loc2) > 2000

\* calculateQuickDistance(loc1, loc2) > 0.2, in metres: the distance is
\* Infinity when a location or its latitude is missing.
farApart(loc1, loc2) ==
    IF ~ loc1.present \/ ~ loc2.present THEN TRUE
    ELSE calculateDistance(loc1, loc2) > 200

\* The department filter of the loop: skip if different departments (unless
\* very close location).
skipDifferentDepartment(existingComplaint, newDepartment, location) ==
    /\ existingComplaint.department # newDepartment
    /\ \/ ~ location.present
       \/ ~ existingComplaint.location.present
       \/ farApart(location, existingComplaint.location)

\* await ai.categorizeDepartment(complaintText) for the document at hand, and
\* the department filter.
departmentReply(reply) ==
    /\ flow.stage = "department"
    /\ LET location == flow.location
           existingComplaint == flow.pool[flow.i]
           newDepartment == categorizeDepartment(reply)
           skip == skipDifferentDepartment(existingComplaint, newDepartment,
                                           location)
           f == [flow EXCEPT
                   !.failed = @ \/ ~ reply.ok,
                   !.departments = @ \cup {[id |-> flow.i,
                                            newDepartment |-> newDepartment,
                                            skipped |-> skip]}]
       IN  IF skip
           THEN flow' = LoopFrom(f, f.i)
           ELSE flow' = [f EXCEPT !.stage = "similarity"]
    /\ UNCHANGED <<lifecycleVars, sim, citizen, draft, rate, textMessage>>

\* await ai.checkComplaintSimilarity(complaintText, existingComplaint.description,
\* location, existingComplaint.location, imageUrl, existingComplaint.imageUrl)
\* and the bestMatch update.  The image classifier is called only when both
\* pictures are there.
similarityReply(replies) ==
    /\ flow.stage = "similarity"
    /\ LET existingComplaint == flow.pool[flow.i]
           similarity ==
               checkComplaintSimilarity(flow.location, existingComplaint.location,
                                        flow.imageUrl, existingComplaint.imageUrl,
                                        replies, 0)
           failure == \/ ~ replies.semantic.ok
                      \/ ~ replies.type.ok
                      \/ /\ flow.imageUrl /\ existingComplaint.imageUrl
                         /\ ~ replies.image.ok
           f == [flow EXCEPT
                   !.failed = @ \/ failure,
                   !.scanned = @ \cup {[id |-> flow.i,
                                        score |-> similarity.score,
                                        temporal |-> similarity.temporal,
                                        isDuplicate |-> similarity.isDuplicate]},
                   !.best = IF similarity.score > @.score
                            THEN [id |-> flow.i] @@ similarity
                            ELSE @]
       IN  flow' = LoopFrom(f, f.i)
    /\ UNCHANGED <<lifecycleVars, sim, citizen, draft, rate, textMessage>>

\* await addUserToComplaintFollowUp(bestMatch.docId, formattedPhone), which
\* swallows a failed write, and the return of isDuplicate: true.
addUserToComplaintFollowUp ==
    /\ flow.stage = "followup"
    /\ \E joined \in BOOLEAN :
         flow' = [flow EXCEPT !.stage = "notify", !.verdict = "duplicate",
                              !.joined = joined]
    /\ UNCHANGED <<lifecycleVars, sim, citizen, draft, rate, textMessage>>

\* if (duplicateCheck.isDuplicate): the duplicate message is sent and the
\* flow returns.
sendDuplicateMessage ==
    /\ flow.stage = "notify"
    /\ flow' = [flow EXCEPT !.stage = "done"]
    /\ UNCHANGED <<lifecycleVars, sim, citizen, draft, rate, textMessage>>

\* No duplicate found: await createDraftComplaint(...), then the confirmation
\* request; a failed write throws and the catch sends the error text.
createDraftForReport ==
    /\ flow.stage = "create_draft"
    /\ \E created \in BOOLEAN :
         flow' = [flow EXCEPT !.stage = "done", !.draftCreated = created]
    /\ UNCHANGED <<lifecycleVars, sim, citizen, draft, rate, textMessage>>

DupNext ==
    \/ \E phone \in Reporters, imageUrl \in BOOLEAN :
          handleComplaintFlow(phone, imageUrl)
    \/ queryRecentComplaints
    \/ \E reply \in DepartmentReplies : departmentReply(reply)
    \/ \E replies \in FlowReplySets : similarityReply(replies)
    \/ addUserToComplaintFollowUp
    \/ sendDuplicateMessage
    \/ createDraftForReport

DupSpec == DupInit /\ [][DupNext]_vars

\* The store and the messaging service answer every call; the classifier
\* may stay silent.
DupFairSpec ==
    /\ DupSpec
    /\ WF_vars(queryRecentComplaints)
    /\ WF_vars(addUserToComplaintFollowUp)
    /\ WF_vars(sendDuplicateMessage)
    /\ WF_vars(createDraftForReport)

\* checkDuplicateComplaint on its own, with a location argument: the reporter
\* stands at the start of the street or passes no location, the candidates
\* have no location or lie thirty metres or 1.5 km away, and the classifier
\* answers within 0.0-1.0.
CheckCandidates ==
    [createdBy : Reporters,
     department : Departments,
     location : {NoLocation} \cup {[present |-> TRUE, pos |-> p, address |-> {}] :
                                     p \in {30, 1500}},
     imageUrl : {TRUE},
     createdAt : {-2}]

CheckPools == UNION { [1..n -> CheckCandidates] : n \in 0..MaxPool }

CheckLocations == {NoLocation, [present |-> TRUE, pos |-> 0, address |-> {}]}

CheckReplySets ==
    { rs \in ReplySets :
        \A k \in {"semantic", "image", "type"} :
            rs[k].ok => rs[k].score \in {60, 100} }

CheckInit ==
    /\ InitLifecycle
    /\ sim = NoSim
    /\ citizen = NoCitizen
    /\ draft = NoDraft
    /\ rate = NoRate
    /\ textMessage = NoText
    /\ \E pool \in CheckPools : flow = [NoFlow EXCEPT !.pool = pool]

CheckNext ==
    \/ \E phone \in Reporters, location \in CheckLocations, imageUrl \in BOOLEAN :
          checkDuplicateComplaint(phone, location, imageUrl)
    \/ queryRecentComplaints
    \/ \E reply \in DepartmentReplies : departmentReply(reply)
    \/ \E replies \in CheckReplySets : similarityReply(replies)
    \/ addUserToComplaintFollowUp
    \/ sendDuplicateMessage
    \/ createDraftForReport

CheckSpec == CheckInit /\ [][CheckNext]_vars

\* ===================================================== citizen's ethicalScore
\* updateCitizenEthicalScore (src/firebaseService.js).  Scores are kept in
\* tenths (75 for 7.5).  1 / Math.sqrt(totalMessages + 1) is cut to three
\* decimals, so the weighted mean may differ from the code's double in the
\* last digit before it is rounded.

MaxMessages == 3        \* messages counted for the citizen

\* messageEthicalScore values, in tenths: calculateEthicalScore yields 1..10;
\* the function itself takes any number.
MessageScores == {-50, 10, 50, 100, 300}

\* decay = Math.max(0.1, 1 / Math.sqrt(totalMessages + 1)), in thousandths.
decay(totalMessages) ==
    LET root == CHOOSE d \in 0..1000 :
                    /\ d * d * (totalMessages + 1) <= 1000000
                    /\ (d + 1) * (d + 1) * (totalMessages + 1) > 1000000
    IN  IF root < 100 THEN 100 ELSE root

\* Math.round(x * 10) for newScore x = num / den in tenths: the nearest
\* integer, halves upwards.
roundTenths(num, den) == (2 * num + den) \div (2 * den)

\* finalScore of updateCitizenEthicalScore without Math.max and Math.min.
finalEthicalScore_Unclamped(currentScore, totalMessages, messageEthicalScore) ==
    LET weight == IF totalMessages < 100 THEN totalMessages ELSE 100
        kept == weight * (1000 - decay(totalMessages))
    IN  roundTenths(currentScore * kept + messageEthicalScore * 3000, kept + 3000)

\* newScore, roundedScore and finalScore of updateCitizenEthicalScore:
\* weight = min(totalMessages, 100), the weighted mean of the current score
\* (weight * (1 - decay)) and the message score (3), rounded to one decimal
\* and clamped to [1, 10].
finalEthicalScore(currentScore, totalMessages, messageEthicalScore) ==
    LET weight == IF totalMessages < 100 THEN totalMessages ELSE 100
        kept == weight * (1000 - decay(totalMessages))
        roundedScore == roundTenths(currentScore * kept
                                        + messageEthicalScore * 3000,
                                    kept + 3000)
    IN  IF roundedScore > 100 THEN 100
        ELSE IF roundedScore < 10 THEN 10
        ELSE roundedScore

EthicalInit ==
    /\ InitLifecycle
    /\ sim = NoSim
    /\ flow = NoFlow
    /\ draft = NoDraft
    /\ rate = NoRate
    /\ textMessage = NoText
    /\ citizen = NoCitizen

\* A message of the citizen is counted: totalMessages: increment(1).
countMessage ==
    /\ citizen.totalMessages < MaxMessages
    /\ citizen' = [citizen EXCEPT !.totalMessages = @ + 1]
    /\ UNCHANGED <<lifecycleVars, sim, flow, draft, rate, textMessage>>

\* updateCitizenEthicalScore of request h up to citizenRef.get():
\* currentScore = ethicalScore || 7.5 and totalMessages || 1 are read.
readCitizen(h, messageEthicalScore) ==
    /\ citizen.updates[h].stage = "idle"
    /\ citizen' = [citizen EXCEPT
                     !.updates[h] =
                         [NoUpdate EXCEPT
                            !.stage = "read",
                            !.message = messageEthicalScore,
                            !.currentScore = IF citizen.ethicalScore = 0 THEN 75
                                             ELSE citizen.ethicalScore,
                            !.readMessages = IF citizen.totalMessages = 0 THEN 1
                                             ELSE citizen.totalMessages]]
    /\ UNCHANGED <<lifecycleVars, sim, flow, draft, rate, textMessage>>

\* citizenRef.update({ethicalScore: finalScore, ...}) of request h, which
\* every request still between its read and its write has then been crossed
\* by; a failed write is swallowed by the catch.
writeEthicalScore(h) ==
    /\ citizen.updates[h].stage = "read"
    /\ LET u == citizen.updates[h]
       IN  \/ citizen' = [citizen EXCEPT
                            !.ethicalScore =
                                finalEthicalScore(u.currentScore, u.readMessages,
                                                  u.message),
                            !.updates = [g \in Handlers |->
                                IF g = h THEN NoUpdate
                                ELSE IF @[g].stage # "read" THEN @[g]
                                ELSE IF @[g].crossed = 0 /\ u.crossed = 0
                                THEN [@[g] EXCEPT
                                        !.crossed = 1,
                                        !.other = [message |-> u.message,
                                                   readMessages |-> u.readMessages]]
                                ELSE [@[g] EXCEPT !.crossed = 2,
                                                  !.other = NoOther]]]
           \/ citizen' = [citizen EXCEPT !.updates[h] = NoUpdate]
    /\ UNCHANGED <<lifecycleVars, sim, flow, draft, rate, textMessage>>

\* No updateCitizenEthicalScore call is between its read and its write.
NoUpdateInFlight == \A h \in Handlers : citizen.updates[h].stage = "idle"

\* The citizen's messages are handled one after the other.
EthicalNext ==
    \/ NoUpdateInFlight /\ countMessage
    \/ \E h \in Handlers, m \in MessageScores :
          NoUpdateInFlight /\ readCitizen(h, m)
    \/ \E h \in Handlers : writeEthicalScore(h)

EthicalSpec == EthicalInit /\ [][EthicalNext]_vars

\* Messages of the citizen handled by concurrent requests; their scores are
\* two of those calculateEthicalScore gives (1 and 10).
RaceScores == {10, 100}

RaceNext ==
    \/ countMessage
    \/ \E h \in Handlers, m \in RaceScores : readCitizen(h, m)
    \/ \E h \in Handlers : writeEthicalScore(h)

RaceSpec == EthicalInit /\ [][RaceNext]_vars

\* ============================================================ rate limiter
\* isRateLimited, handleRateLimit and cleanupRateLimit with the head of
\* processIncomingMessage (src/unnamed/part_002).  isRateLimited has no
\* await before its return, so it runs in one step.  Date.now() moves in
\* steps of half a window.

RATE_LIMIT_WINDOW == 60000
RATE_LIMIT_MAX_MESSAGES == 20

ClockStep == 30000      \* milliseconds between two readings of Date.now()
MaxTicks == 3           \* readings of Date.now() after the first
MaxArrivals == 22       \* messages that arrive in a run

\* The citizen document of the model belongs to this reporter.
CitizenPhone == "r1"

\* rateLimitStore without an entry for the key.
NoEntry == [has |-> FALSE, count |-> 0, resetTime |-> 0]

\* isRateLimited with '>' for '>=' in the comparison with the maximum.
isRateLimited_OneMore(store, phoneNumber, now) ==
    LET userData == store[phoneNumber]
        fresh == [has |-> TRUE, count |-> 1,
                  resetTime |-> now + RATE_LIMIT_WINDOW]
    IN  IF ~ userData.has
        THEN [limited |-> FALSE, store |-> [store EXCEPT ![phoneNumber] = fresh]]
        ELSE IF now > userData.resetTime
        THEN [limited |-> FALSE, store |-> [store EXCEPT ![phoneNumber] = fresh]]
        ELSE IF userData.count > RATE_LIMIT_MAX_MESSAGES
        THEN [limited |-> TRUE, store |-> store]
        ELSE [limited |-> FALSE,
              store |-> [store EXCEPT ![phoneNumber].count = @ + 1]]

\* isRateLimited(phoneNumber) at time now: the returned flag and the store
\* it leaves.
isRateLimited(store, phoneNumber, now) ==
    LET userData == store[phoneNumber]
        fresh == [has |-> TRUE, count |-> 1,
                  resetTime |-> now + RATE_LIMIT_WINDOW]
    IN  IF ~ userData.has
        THEN [limited |-> FALSE, store |-> [store EXCEPT ![phoneNumber] = fresh]]
        ELSE IF now > userData.resetTime
        THEN [limited |-> FALSE, store |-> [store EXCEPT ![phoneNumber] = fresh]]
        ELSE IF userData.count >= RATE_LIMIT_MAX_MESSAGES
        THEN [limited |-> TRUE, store |-> store]
        ELSE [limited |-> FALSE,
              store |-> [store EXCEPT ![phoneNumber].count = @ + 1]]

RateInit ==
    /\ InitLifecycle
    /\ sim = NoSim
    /\ flow = NoFlow
    /\ citizen = NoCitizen
    /\ draft = NoDraft
    /\ textMessage = NoText
    /\ rate = NoRate

\* Date.now() between two steps.
advanceTime ==
    /\ rate.now < MaxTicks * ClockStep
    /\ rate' = [rate EXCEPT !.now = @ + ClockStep]
    /\ UNCHANGED <<lifecycleVars, sim, flow, citizen, draft, textMessage>>

\* processIncomingMessage up to 'if (await isRateLimited(phoneNumber))'.
\* accepted counts the messages of the reporter let through since the entry
\* of the reporter was last created.
processIncomingMessage(phoneNumber) ==
    /\ rate.stage = "idle"
    /\ rate.arrivals < MaxArrivals
    /\ LET r == isRateLimited(rate.store, phoneNumber, rate.now)
           created == \/ ~ rate.store[phoneNumber].has
                      \/ r.store[phoneNumber].resetTime
                             # rate.store[phoneNumber].resetTime
       IN  rate' = [rate EXCEPT
                     !.store = r.store,
                     !.arrivals = @ + 1,
                     !.stage = IF r.limited THEN "limited" ELSE "admitted",
                     !.phone = phoneNumber,
                     !.accepted[phoneNumber] =
                         IF r.limited THEN @
                         ELSE IF created THEN 1
                         ELSE @ + 1]
    /\ UNCHANGED <<lifecycleVars, sim, flow, citizen, draft, textMessage>>

\* handleRateLimit: the rate limit text is sent and processIncomingMessage
\* returns.
handleRateLimit ==
    /\ rate.stage = "limited"
    /\ rate' = [rate EXCEPT !.stage = "idle", !.phone = "none"]
    /\ UNCHANGED <<lifecycleVars, sim, flow, citizen, draft, textMessage>>

\* ensureCitizenExists for a message let through: the existing profile gets
\* totalMessages: increment(1); a failed write throws and ends the request.
ensureCitizenExists ==
    /\ rate.stage = "admitted"
    /\ rate' = [rate EXCEPT !.stage = "idle", !.phone = "none"]
    /\ \/ /\ rate.phone = CitizenPhone
          /\ citizen' = [citizen EXCEPT !.totalMessages = @ + 1]
       \/ UNCHANGED citizen
    /\ UNCHANGED <<lifecycleVars, sim, flow, draft, textMessage>>

\* cleanupRateLimit, run by setInterval: entries whose resetTime has passed
\* are deleted.
cleanupRateLimit ==
    /\ \E k \in Reporters :
          rate.store[k].has /\ rate.now > rate.store[k].resetTime
    /\ rate' = [rate EXCEPT
                  !.store = [k \in Reporters |->
                               IF @[k].has /\ rate.now > @[k].resetTime
                               THEN NoEntry ELSE @[k]]]
    /\ UNCHANGED <<lifecycleVars, sim, flow, citizen, draft, textMessage>>

RateNext ==
    \/ advanceTime
    \/ \E phoneNumber \in Reporters : processIncomingMessage(phoneNumber)
    \/ handleRateLimit
    \/ ensureCitizenExists
    \/ cleanupRateLimit

RateSpec == RateInit /\ [][RateNext]_vars

\* ======================================================= handleTextMessage
\* handleTextMessage (src/unnamed/part_002) for one text message of the
\* citizen whose document the model holds, with getCitizenBotMode
\* (src/firebaseService.js).  botMode is set in the document from outside the
\* service.  The complaint intent leads into the duplicate check above; a
\* text message carries neither location nor picture, so no candidate
\* reaches the duplicate verdict and the check ends in the draft.

\* Intents analyzeIntent may return; 'other' is also its fallback.
Intents == {"complaint", "query", "other"}

TextInit ==
    /\ InitLifecycle
    /\ sim = NoSim
    /\ draft = NoDraft
    /\ rate = NoRate
    /\ textMessage = NoText
    /\ \E pool \in Pools : flow = [NoFlow EXCEPT !.pool = pool]
    /\ \E botMode \in BOOLEAN : citizen = [NoCitizen EXCEPT !.botMode = botMode]

\* A text message of the citizen enters handleTextMessage.
handleTextMessage ==
    /\ textMessage.stage = "idle"
    /\ textMessage' = [textMessage EXCEPT !.stage = "bot_mode",
                                          !.phone = CitizenPhone]
    /\ UNCHANGED <<lifecycleVars, sim, flow, citizen, draft, rate>>

\* getCitizenBotMode: data.botMode !== false for the document read; true
\* when the read throws.
getCitizenBotMode(botMode, readFailed) ==
    IF readFailed THEN TRUE ELSE botMode # FALSE

\* const botMode = await getCitizenBotMode(phoneNumber)
readBotMode ==
    /\ textMessage.stage = "bot_mode"
    /\ \E readFailed \in BOOLEAN :
         textMessage' = [textMessage EXCEPT
                           !.stage = "intent",
                           !.botMode = getCitizenBotMode(citizen.botMode,
                                                         readFailed)]
    /\ UNCHANGED <<lifecycleVars, sim, flow, citizen, draft, rate>>

\* await analyzeIntent(messageText, phoneNumber), then saveChatMessage with
\* that intent; a failed save throws into the catch of handleTextMessage,
\* which sends the error text.
saveChatMessage(intent) ==
    /\ textMessage.stage = "intent"
    /\ \/ textMessage' = [textMessage EXCEPT !.stage = "score",
                                              !.intent = intent,
                                              !.saved = TRUE]
       \/ textMessage' = [textMessage EXCEPT !.stage = "done",
                                              !.intent = intent]
    /\ UNCHANGED <<lifecycleVars, sim, flow, citizen, draft, rate>>

\* await updateCitizenEthicalScore(phoneNumber, ethicalScore) of the only
\* request there is, whose failure is swallowed, and 'if (!botMode) return'.
updateCitizenEthicalScore(messageEthicalScore) ==
    /\ textMessage.stage = "score"
    /\ textMessage' = [textMessage EXCEPT
                         !.stage = IF textMessage.botMode THEN "route"
                                   ELSE "done",
                         !.scored = TRUE]
    /\ \/ citizen' = [citizen EXCEPT
                        !.ethicalScore =
                            finalEthicalScore(
                                IF @ = 0 THEN 75 ELSE @,
                                IF citizen.totalMessages = 0 THEN 1
                                ELSE citizen.totalMessages,
                                messageEthicalScore)]
       \/ UNCHANGED citizen
    /\ UNCHANGED <<lifecycleVars, sim, flow, draft, rate>>

\* switch (intentAnalysis.intent): 'complaint' calls handleComplaintFlow,
\* which starts the duplicate check with location null and no picture; the
\* other intents are answered with a text.
routeByIntent ==
    /\ textMessage.stage = "route"
    /\ textMessage' = [textMessage EXCEPT !.stage = "done",
                                          !.routed = textMessage.intent]
    /\ IF textMessage.intent = "complaint"
       THEN flow' = [flow EXCEPT !.stage = "query",
                                 !.phone = textMessage.phone,
                                 !.location = NoLocation,
                                 !.imageUrl = FALSE]
       ELSE UNCHANGED flow
    /\ UNCHANGED <<lifecycleVars, sim, citizen, draft, rate>>

TextNext ==
    \/ handleTextMessage
    \/ readBotMode
    \/ \E intent \in Intents : saveChatMessage(intent)
    \/ \E m \in RaceScores : updateCitizenEthicalScore(m)
    \/ routeByIntent
    \/ queryRecentComplaints
    \/ \E reply \in DepartmentReplies : departmentReply(reply)
    \/ \E replies \in FlowReplySets : similarityReply(replies)
    \/ createDraftForReport

TextSpec == TextInit /\ [][TextNext]_vars

\* ==================================================== createDraftComplaint
\* The classification of a new complaint and its first document
\* (src/firebaseService.js, createDraftComplaint and
\* calculateEstimatedResolutionTime; src/aiService.js for the three
\* classification calls).

validPriorities == {"emergency", "high", "medium", "low"}

validTypes ==
    {"Water Supply Issues", "Drainage Problems", "Road Maintenance",
     "Street Lighting", "Waste Collection", "Public Toilets",
     "Building Permits", "Property Tax", "Traffic Management",
     "Park Maintenance", "Health Services", "General Services"}

\* String.prototype.toLowerCase on the replies drawn below.
toLowerCase(text) ==
    IF text = "High" THEN "high"
    ELSE IF text = "URGENT" THEN "urgent"
    ELSE text

\* assessComplaintPriority: the lower-cased reply if it is a valid priority,
\* else 'medium'; the catch returns 'medium'.
assessComplaintPriority(reply) ==
    IF reply.ok /\ toLowerCase(reply.text) \in validPriorities
    THEN toLowerCase(reply.text) ELSE "medium"

\* categorizeComplaintType: the reply if it is a valid type, else 'General
\* Services'; the catch returns 'General Services'.
categorizeComplaintType(reply) ==
    IF reply.ok /\ reply.text \in validTypes
    THEN reply.text ELSE "General Services"

\* baseTimes[department] || 48
baseTime(department) ==
    CASE department = "Water Supply" -> 24
      [] department = "Waste Management" -> 48
      [] department = "Roads & Infrastructure" -> 72
      [] department = "Health & Sanitation" -> 24
      [] department = "Building & Planning" -> 168
      [] department = "Electricity" -> 12
      [] department = "Parks & Recreation" -> 48
      [] department = "Traffic & Transport" -> 24
      [] department = "Property Tax" -> 72
      [] department = "General Administration" -> 48
      [] OTHER -> 48

\* priorityMultipliers[priority] || 1.0, in hundredths
multiplier(priority) ==
    CASE priority = "emergency" -> 25
      [] priority = "high" -> 50
      [] priority = "medium" -> 100
      [] priority = "low" -> 150
      [] OTHER -> 100

\* calculateEstimatedResolutionTime with 24 hours for a department outside
\* the table.
calculateEstimatedResolutionTime_UnknownDay(department, priority) ==
    IF department \in validDepartments
    THEN (baseTime(department) * multiplier(priority) + 99) \div 100
    ELSE (24 * multiplier(priority) + 99) \div 100

\* calculateEstimatedResolutionTime: Math.ceil(baseTime * multiplier)
calculateEstimatedResolutionTime(department, priority) ==
    (baseTime(department) * multiplier(priority) + 99) \div 100

\* An entry of Promise.allSettled: the call was rejected, or it was fulfilled
\* with what the classification function made of the classifier's reply.
TextReplies(texts) ==
    {[ok |-> FALSE, text |-> ""]} \cup {[ok |-> TRUE, text |-> t] : t \in texts}

Settled(replies) ==
    {[rejected |-> TRUE, reply |-> [ok |-> FALSE, text |-> ""]]}
        \cup {[rejected |-> FALSE, reply |-> r] : r \in replies}

DepartmentResults == Settled(TextReplies(validDepartments \cup {"Water"}))

PriorityResults == Settled(TextReplies(validPriorities \cup {"High", "URGENT"}))

CategoryResults ==
    Settled(TextReplies({"Drainage Problems", "General Services", "Potholes"}))

\* The draft document with estimatedResolutionTime taken from the defaults,
\* before the classification results are applied.
draftDocument_EarlyEstimate(phone, now, deptResult, priorityResult, categoryResult) ==
    LET department == IF deptResult.rejected THEN "General Administration"
                      ELSE categorizeDepartment(deptResult.reply)
        priority == IF priorityResult.rejected THEN "medium"
                    ELSE assessComplaintPriority(priorityResult.reply)
        category == IF categoryResult.rejected THEN "General Services"
                    ELSE categorizeComplaintType(categoryResult.reply)
    IN  draftComplaint(phone, now)
            @@ [department |-> department,
                priority |-> priority,
                category |-> category,
                estimatedResolutionTime |->
                    calculateEstimatedResolutionTime("General Administration",
                                                     "medium")]

\* draftComplaint of createDraftComplaint: the defaults, overridden by each
\* fulfilled classification result, the estimate for the department and
\* priority so obtained, and the fields the complaint starts its life with.
draftDocument(phone, now, deptResult, priorityResult, categoryResult) ==
    LET department == IF deptResult.rejected THEN "General Administration"
                      ELSE categorizeDepartment(deptResult.reply)
        priority == IF priorityResult.rejected THEN "medium"
                    ELSE assessComplaintPriority(priorityResult.reply)
        category == IF categoryResult.rejected THEN "General Services"
                    ELSE categorizeComplaintType(categoryResult.reply)
    IN  draftComplaint(phone, now)
            @@ [department |-> department,
                priority |-> priority,
                category |-> category,
                estimatedResolutionTime |->
                    calculateEstimatedResolutionTime(department, priority)]

DraftInit ==
    /\ InitLifecycle
    /\ sim = NoSim
    /\ flow = NoFlow
    /\ citizen = NoCitizen
    /\ draft = NoDraft
    /\ rate = NoRate
    /\ textMessage = NoText

\* calculateEstimatedResolutionTime applied to a department and a priority.
estimateRequest(department, priority) ==
    /\ draft.stage = "idle"
    /\ draft' = [draft EXCEPT
                   !.stage = "estimated",
                   !.department = department,
                   !.priority = priority,
                   !.estimate = calculateEstimatedResolutionTime(department,
                                                                 priority)]
    /\ UNCHANGED <<lifecycleVars, sim, flow, citizen, rate, textMessage>>

\* createDraftComplaint up to the end of Promise.allSettled over
\* categorizeDepartment, assessComplaintPriority and categorizeComplaintType.
classifyDraft(phone, deptResult, priorityResult, categoryResult) ==
    /\ draft.stage = "idle"
    /\ draft' = [draft EXCEPT
                   !.stage = "classified",
                   !.phone = phone,
                   !.deptResult = deptResult,
                   !.priorityResult = priorityResult,
                   !.categoryResult = categoryResult]
    /\ UNCHANGED <<lifecycleVars, sim, flow, citizen, rate, textMessage>>

\* complaintRef.set(draftComplaint); a failed write is rethrown.
writeDraft ==
    /\ draft.stage = "classified"
    /\ \/ draft' = [draft EXCEPT
                      !.stage = "written",
                      !.doc = draftDocument(draft.phone, clock, draft.deptResult,
                                            draft.priorityResult,
                                            draft.categoryResult)]
       \/ draft' = [draft EXCEPT !.stage = "failed"]
    /\ UNCHANGED <<lifecycleVars, sim, flow, citizen, rate, textMessage>>

DraftNext ==
    \/ \E department \in validDepartments \cup {"Street Lights"},
          priority \in validPriorities \cup {"urgent"} :
          estimateRequest(department, priority)
    \/ \E phone \in Reporters, deptResult \in DepartmentResults,
          priorityResult \in PriorityResults,
          categoryResult \in CategoryResults :
          classifyDraft(phone, deptResult, priorityResult, categoryResult)
    \/ writeDraft

DraftSpec == DraftInit /\ [][DraftNext]_vars

\* ------------------------------------------------- duplicate-check claims
\* C11: when the repository query or a classifier call failed during the
\* duplicate check of a report, the check ends with isDuplicate = false and
\* handleComplaintFlow goes on to create the draft complaint.
C11_FailureMeansNotDuplicate ==
    (flow.failed /\ flow.verdict # "none")
        => /\ flow.verdict = "unique"
           /\ flow.stage \in {"create_draft", "done"}

\* C12: the duplicate check of a report always comes to an end, also when
\* the classifier stays silent: the report ends in a follow-up join or in
\* the creation of its draft complaint.
C12_CheckEventuallyReturns ==
    (flow.stage = "query") ~> (flow.stage = "done")

\* C16: Scenario A.  The only open complaint is another reporter's, of the
\* report's department, thirty metres from the reporter and two hours old,
\* and the classifier finds the same text and the same type: the similarity
\* result has an aggregate of at least 0.85 and isDuplicate = true.
C16_ScenarioA ==
    ( /\ Len(flow.pool) = 1
      /\ flow.stage \in {"followup", "notify", "create_draft", "done"}
      /\ ~ flow.failed
      /\ flow.pool[1].createdBy # flow.phone
      /\ flow.pool[1].location.present
      /\ flow.pool[1].location.pos = 30
      /\ flow.pool[1].createdAt = -2
      /\ flow.best.id = 1
      /\ flow.best.semantic = 100
      /\ flow.best.type = 100 )
    => /\ flow.best.score >= 8500
       /\ flow.best.isDuplicate
       /\ flow.verdict # "unique"

\* C13: when the duplicate check of reporter R returns its duplicate verdict
\* for complaint C, no draft complaint has been created by that request, R is
\* in followUpUsers of C and, if C has a ticket record, in followUpUsers of
\* that ticket.
C13_DuplicateAttachesReporter ==
    [][\A h \in Handlers :
         ( /\ pc[h] \in {"followup_complaint", "followup_query", "followup_ticket"}
           /\ pc'[h] = "idle" )
         => /\ Len(complaints') = Len(complaints)
            /\ req[h].phone \in complaints'[req[h].id].followUpUsers
            /\ \A t \in DOMAIN tickets' :
                  tickets'[t].complaintId = req[h].id
                  => req[h].phone \in tickets'[t].followUpUsers]_vars

\* ------------------------------------------------------ similarity claims
\* C14: decideDuplicateStatus is monotonic: when one of the text, location
\* and image scores is raised (aggregate recomputed from the weights,
\* withinProximity kept or turned true, the other sub-scores kept), a
\* duplicate verdict stays a duplicate verdict.
C14_RaisingKeepsDuplicate ==
    [][(sim.stage # "idle" /\ sim'.stage = "reassessed" /\ sim.isDuplicate)
           => sim'.isDuplicate]_vars

\* A duplicate verdict was taken again after a raise, below every aggregate
\* threshold.
C14_Witness ==
    /\ sim.stage = "reassessed"
    /\ sim.before
    /\ sim.isDuplicate
    /\ sim.score < 7500

\* The six rules of the duplicate decision, over the sub-scores of a result.
SixRules(r) ==
    \/ r.score >= 8500
    \/ r.score >= 7500 /\ r.withinProximity
    \/ r.semantic >= 85 /\ r.location >= 70
    \/ r.location >= 90 /\ r.semantic >= 60
    \/ r.image >= 80 /\ r.location >= 60
    \/ r.score >= 8000

\* C15: the verdict of decideDuplicateStatus is true exactly when at least
\* one of the six rules holds, and false otherwise.
C15_VerdictIffSomeRule ==
    sim.stage # "idle" => (sim.isDuplicate <=> SixRules(sim))

\* A verdict that rests on the image rule alone, at its threshold.
C15_Witness ==
    /\ sim.stage = "analysed"
    /\ sim.isDuplicate
    /\ sim.image = 80
    /\ sim.location >= 60
    /\ sim.score < 7500
    /\ ~ (sim.semantic >= 85 /\ sim.location >= 70)
    /\ ~ (sim.location >= 90 /\ sim.semantic >= 60)

\* C17: in every result of checkComplaintSimilarity each sub-score lies in
\* [0,1], the five weights sum to 1.0, and the aggregate is the weighted sum
\* and lies in [0,1].
C17_ScoresInUnitInterval ==
    sim.stage = "analysed" =>
        /\ \A k \in {"semantic", "location", "image", "temporal", "type"} :
               0 <= sim[k] /\ sim[k] <= 100
        /\ weights.semantic + weights.location + weights.image
               + weights.temporal + weights.type = 100
        /\ sim.score = sim.semantic * weights.semantic
                          + sim.location * weights.location
                          + sim.image * weights.image
                          + sim.temporal * weights.temporal
                          + sim.type * weights.type
        /\ 0 <= sim.score /\ sim.score <= 10000

\* -------------------------------------------------------- ethical score
\* C18: whatever message scores updateCitizenEthicalScore is called with, and
\* however often, the stored ethicalScore lies in [1,10].
C18_EthicalScoreInRange ==
    10 <= citizen.ethicalScore /\ citizen.ethicalScore <= 100

\* Message scores of 30 have been worked into a fresh citizen's 7.5 (a mean
\* of 28.0) and the stored score stands at the upper end.
C18_Witness ==
    /\ \A h \in Handlers : citizen.updates[h].stage = "idle"
    /\ citizen.totalMessages = 0
    /\ citizen.ethicalScore = 100

\* ------------------------------------------------------ draft creation
\* Base hours and priority factor (in hundredths) as the estimator is
\* specified: 48 hours for a department outside the table.
SpecBaseHours(department) ==
    CASE department \in {"Water Supply", "Health & Sanitation",
                         "Traffic & Transport"} -> 24
      [] department \in {"Waste Management", "Parks & Recreation",
                         "General Administration"} -> 48
      [] department \in {"Roads & Infrastructure", "Property Tax"} -> 72
      [] department = "Building & Planning" -> 168
      [] department = "Electricity" -> 12
      [] OTHER -> 48

SpecFactor ==
    [emergency |-> 25, high |-> 50, medium |-> 100, low |-> 150]

\* C19: for every department (in the table or not) and every priority of the
\* table, calculateEstimatedResolutionTime is the base hours times the
\* priority factor rounded up to a whole hour; it is a positive whole number
\* and does not decrease along emergency, high, medium, low.
C19_EstimateIsTableProduct ==
    (draft.stage = "estimated" /\ draft.priority \in validPriorities)
    => LET product == SpecBaseHours(draft.department) * SpecFactor[draft.priority]
           at(p) == calculateEstimatedResolutionTime(draft.department, p)
       IN  /\ draft.estimate \in Nat \ {0}
           /\ 100 * (draft.estimate - 1) < product
           /\ product <= 100 * draft.estimate
           /\ at("emergency") <= at("high")
           /\ at("high") <= at("medium")
           /\ at("medium") <= at("low")

\* The estimate of an emergency in a department outside the table: a quarter
\* of 48 hours.
C19_Witness ==
    /\ draft.stage = "estimated"
    /\ draft.department \notin validDepartments
    /\ draft.priority = "emergency"
    /\ draft.estimate = 12

\* A classification call failed: it was rejected, or the classifier did not
\* answer it.
CallFailed(result) == result.rejected \/ ~ result.reply.ok

\* C20: the document createDraftComplaint writes has status 'draft',
\* requiresLocationSharing true, location null, ticketId null and
\* workflow.completionPercentage 30; a field whose classification call
\* failed holds its default, and estimatedResolutionTime is the estimate for
\* the stored department and priority.
C20_DraftStartsWithDefaults ==
    draft.stage = "written"
    => /\ draft.doc.status = "draft"
       /\ draft.doc.requiresLocationSharing
       /\ draft.doc.location = "null"
       /\ draft.doc.ticketId = NoTicket
       /\ draft.doc.completionPercentage = 30
       /\ CallFailed(draft.deptResult)
              => draft.doc.department = "General Administration"
       /\ CallFailed(draft.priorityResult) => draft.doc.priority = "medium"
       /\ CallFailed(draft.categoryResult)
              => draft.doc.category = "General Services"
       /\ draft.doc.estimatedResolutionTime
              = calculateEstimatedResolutionTime(draft.doc.department,
                                                 draft.doc.priority)

\* A draft written after the department call failed and the priority call
\* answered 'emergency'.
C20_Witness ==
    /\ draft.stage = "written"
    /\ CallFailed(draft.deptResult)
    /\ ~ CallFailed(draft.priorityResult)
    /\ draft.doc.department = "General Administration"
    /\ draft.doc.priority = "emergency"
    /\ draft.doc.estimatedResolutionTime = 12

\* ------------------------------------------- duplicate-check loop claims
\* The loop of checkDuplicateComplaint has ended.
LoopEnded == flow.stage \in {"followup", "notify", "create_draft", "done"}

C24_ShortCircuit ==
    \A d \in flow.departments :
        LET existing == flow.pool[d.id]
            near == /\ flow.location.present
                    /\ existing.location.present
                    /\ calculateDistance(flow.location, existing.location) <= 200
        IN  /\ (existing.department # d.newDepartment /\ ~ near)
                  => /\ d.skipped
                     /\ \A s \in flow.scanned : s.id # d.id
            /\ (existing.department = d.newDepartment \/ near)
                  => /\ ~ d.skipped
                     /\ \/ flow.stage = "similarity" /\ flow.i = d.id
                        \/ \E s \in flow.scanned : s.id = d.id

\* A report with a location went through a pool of two candidates of another
\* department: the one 1.5 km away was skipped, the one thirty metres away
\* was compared.
C24_Witness ==
    /\ LoopEnded
    /\ flow.location.present
    /\ \E d, e \in flow.departments :
          /\ flow.pool[d.id].department # d.newDepartment
          /\ flow.pool[d.id].location.present
          /\ flow.pool[d.id].location.pos = 1500
          /\ d.skipped
          /\ flow.pool[e.id].department # e.newDepartment
          /\ flow.pool[e.id].location.present
          /\ flow.pool[e.id].location.pos = 30
          /\ ~ e.skipped
          /\ \E s \in flow.scanned : s.id = e.id

\* The recency tiers by the age of the candidate in hours, in hundredths.
RecencyTier(hours) ==
    IF hours <= 24 THEN 100
    ELSE IF hours <= 72 THEN 80
    ELSE IF hours <= 168 THEN 60
    ELSE IF hours <= 720 THEN 30
    ELSE 10

\* C25: for every candidate checkDuplicateComplaint hands to
\* checkComplaintSimilarity, the recency score in the aggregate is the tier
\* of the hours since the candidate's createdAt (the report arrives at
\* hour 0).
C25_RecencyByAge ==
    \A s \in flow.scanned :
        s.temporal = RecencyTier(0 - flow.pool[s.id].createdAt)

\* C26: in a result of checkComplaintSimilarity every analyzer whose input
\* was missing or whose call failed has sub-score 0, and the aggregate and
\* the verdict are those of the five sub-scores.
C26_MissingInputScoresZero ==
    sim.stage = "analysed" =>
        /\ \A k \in sim.missing : sim[k] = 0
        /\ sim.score = finalScore([score |-> sim.semantic],
                                  [score |-> sim.location],
                                  [score |-> sim.image],
                                  [score |-> sim.temporal],
                                  [score |-> sim.type])
        /\ sim.isDuplicate = SixRules(sim)

\* ------------------------------------------- location and follow-up claims
\* The location-pending drafts of a reporter.
PendingDrafts(phone) ==
    { c \in ComplaintIds :
        /\ complaints[c].createdBy = phone
        /\ complaints[c].status = "draft"
        /\ complaints[c].requiresLocationSharing }

JoinedOnly(before, after, phone) ==
    /\ DOMAIN after = DOMAIN before
    /\ after.followUpUsers = before.followUpUsers \cup {phone}
    /\ \A f \in DOMAIN before \ {"followUpUsers"} : after[f] = before[f]
    /\ phone \in before.followUpUsers => after = before

C29_JoinReachesTicket ==
    Quiescent =>
        \A c \in ComplaintIds : \A t \in TicketsOf(c) :
            complaints[c].followUpUsers \subseteq tickets[t].followUpUsers

\* --------------------------------------------------- concurrent score updates
\* C28: when exactly one other updateCitizenEthicalScore call read, computed
\* and wrote while request h's call was between its read and its write, the
\* score h then writes is what the two updates give one after the other: the
\* other update followed by h's on the stored score, or h's update followed
\* by the other on the score h read.
C28_NoLostScoreUpdate ==
    [][\A h \in Handlers :
         LET u == citizen.updates[h]
         IN  ( /\ u.stage = "read"
               /\ u.crossed = 1
               /\ citizen'.updates[h].stage = "idle"
               /\ citizen'.ethicalScore # citizen.ethicalScore )
             => citizen'.ethicalScore \in
                    { finalEthicalScore(citizen.ethicalScore, u.readMessages,
                                        u.message),
                      finalEthicalScore(
                          finalEthicalScore(u.currentScore, u.readMessages,
                                            u.message),
                          u.other.readMessages, u.other.message) }]_vars

\* --------------------------------------------------------- rate limit claim
\* C27: between two creations of a reporter's rate-limit entry at most
\* RATE_LIMIT_MAX_MESSAGES messages of the reporter are let through; a
\* rejected message leaves the store (count and resetTime) as it was and the
\* steps of its request change no citizen, complaint or ticket record; and a
\* message arriving after the entry's resetTime has passed is let through and
\* leaves the entry at count 1 with a window starting at that moment.
C27_RateLimiter ==
    [][/\ \A r \in Reporters : rate'.accepted[r] <= RATE_LIMIT_MAX_MESSAGES
       /\ (rate.stage = "idle" /\ rate'.stage = "limited")
            => /\ rate'.store = rate.store
               /\ UNCHANGED <<citizen, complaints, tickets>>
       /\ (rate.stage = "limited" /\ rate'.stage = "idle")
            => /\ rate'.store = rate.store
               /\ UNCHANGED <<citizen, complaints, tickets>>
       /\ \A r \in Reporters :
            ( /\ rate.stage = "idle"
              /\ rate'.stage # "idle"
              /\ rate'.phone = r
              /\ rate.store[r].has
              /\ rate.now > rate.store[r].resetTime )
            => /\ rate'.stage = "admitted"
               /\ rate'.store[r] = [has |-> TRUE, count |-> 1,
                                    resetTime |-> rate.now + RATE_LIMIT_WINDOW]]_vars

\* A reporter's twenty-first message within a window is being rejected
\* while the other reporter has been let through.
C27_Witness ==
    /\ rate.stage = "limited"
    /\ rate.store[rate.phone].count = RATE_LIMIT_MAX_MESSAGES
    /\ rate.accepted[rate.phone] = RATE_LIMIT_MAX_MESSAGES
    /\ rate.now <= rate.store[rate.phone].resetTime
    /\ \E r \in Reporters \ {rate.phone} : rate.accepted[r] > 0

\* ------------------------------------------------------------ botMode claim
\* C30: while botMode is false in the citizen's document, a text message of
\* the citizen is routed to no flow: no duplicate check is started, no
\* follow-up join is made and no draft complaint is created, whatever the
\* intent; and a message handled to its end without a failed save has been
\* saved and scored.
C30_BotModeOffStoresOnly ==
    ~ citizen.botMode =>
        /\ textMessage.routed = "none"
        /\ flow.stage = "idle"
        /\ ~ flow.joined
        /\ ~ flow.draftCreated
        /\ textMessage.stage = "done"
              => (textMessage.saved => textMessage.scored)

====
